---- MODULE Spec2Model ----
(***************************************************************************)
(* Model of fix_test_error_handling.py: main() enumerates the entries of   *)
(* the directory "tests", and fix_test_file() rewrites two error-handling  *)
(* patterns of each entry whose name ends in ".rs" with re.sub.            *)
(*                                                                         *)
(* Text is a sequence of tokens.  A token is either one character of a     *)
(* class the patterns distinguish ("sp" a space, "nl" a line feed, "cr" a  *)
(* carriage return, "rb" the character '}', "x" any other character) or    *)
(* one of the literal pieces of the patterns and templates, named below.   *)
(***************************************************************************)
EXTENDS Integers, Sequences, FiniteSets, TLC

(***************************************************************************)
(* Bounds of the model.                                                    *)
(***************************************************************************)
MaxEntries == 2
MaxSegs == 2
MaxRuns == 2

(***************************************************************************)
(* Tokens.                                                                 *)
(*   MatchEnv    match env_result {                                        *)
(*   OkEnv       Ok(env) => {                                              *)
(*   MatchEngine match engine_result {                                     *)
(*   OkEngine    Ok(engine) => {                                           *)
(*   ErrE        Err(e) => {                                               *)
(*   MatchE      match e {                                                 *)
(*   SzCfg       SzError::Configuration { .. } => {                        *)
(*   Cmt         // Expected for singleton architecture                    *)
(*   Arm         _ => {                                                    *)
(*   PrEnv       eprintln!("Environment initialization failed (may be      *)
(*               acceptable): {:?}", e);                                   *)
(*   PrEngine    eprintln!("Engine setup failed (may be acceptable):       *)
(*               {:?}", e);                                                *)
(* and the lines of the two replacement templates (NA*, NB*, RetErr).      *)
(***************************************************************************)

\* \s of the re module: the characters the patterns treat as whitespace
IsSpace(t) == t \in {"sp", "nl", "cr"}

\* [^}] of the re module: a token no character of which is '}'
NotRBrace(t) == t \notin {"rb", "SzCfg", "PrEnv", "PrEngine"}

Lit(t) == [k |-> "lit", t |-> t]
Ws == [k |-> "ws", t |-> ""]
Body == [k |-> "body", t |-> ""]
Grp == [k |-> "grp", t |-> ""]

\* the elements after "eprintln!(...);" common to both old patterns
ClosePat == <<Ws, Lit("rb"), Ws, Lit("rb"), Ws, Lit("rb"), Ws, Lit("rb")>>

\* the elements from the close of the Ok arm to "_ => {", common to both
ErrPat ==
  <<Lit("rb"), Ws, Lit("ErrE"), Ws, Lit("MatchE"), Ws, Lit("SzCfg"), Ws,
    Lit("Cmt"), Ws, Lit("rb"), Ws, Lit("Arm"), Ws>>

\* old_pattern cut short after "Err(e) => {"
old_pattern_mut ==
  <<Grp, Lit("MatchEnv"), Ws, Lit("OkEnv"), Body, Lit("rb"), Ws, Lit("ErrE")>>

old_pattern ==
  <<Grp, Lit("MatchEnv"), Ws, Lit("OkEnv"), Body>> \o ErrPat
    \o <<Lit("PrEnv")>> \o ClosePat

engine_old_pattern ==
  <<Grp, Lit("MatchEngine"), Ws, Lit("OkEngine"), Body>> \o ErrPat
    \o <<Lit("PrEngine")>> \o ClosePat

Sp4 == <<"sp", "sp", "sp", "sp">>
Sp8 == Sp4 \o Sp4

\* the lines of the template, each without the \1 it starts with
new_pattern ==
  << <<"MatchEnv">>,
     Sp4 \o <<"OkEnv">>,
     Sp8 \o <<"NA1">>,
     Sp8 \o <<"NA2">>,
     <<>>,
     Sp8 \o <<"NA3">>,
     Sp8 \o <<"NA4">>,
     Sp8 \o <<"NA5">>,
     Sp4 \o <<"rb">>,
     Sp4 \o <<"ErrE">>,
     Sp8 \o <<"NA6">>,
     Sp8 \o <<"NA7">>,
     Sp8 \o <<"RetErr">>,
     Sp4 \o <<"rb">>,
     <<"rb">> >>

engine_new_pattern ==
  << <<"MatchEngine">>,
     Sp4 \o <<"OkEngine">>,
     Sp8 \o <<"NB1">>,
     Sp8 \o <<"NB2">>,
     Sp4 \o <<"rb">>,
     Sp4 \o <<"ErrE">>,
     Sp8 \o <<"NB3">>,
     Sp8 \o <<"NB4">>,
     Sp8 \o <<"RetErr">>,
     Sp4 \o <<"rb">>,
     <<"rb">> >>

(***************************************************************************)
(* The matcher of re: positions are 1-based, a result of 0 is "no match",  *)
(* any other result is the position after the match.                       *)
(***************************************************************************)
InClass(e, t) == IF e.k = "body" THEN NotRBrace(t) ELSE IsSpace(t)

MinCount(e) == IF e.k = "ws" THEN 0 ELSE 1

RECURSIVE RunLen(_, _, _)
\* how many tokens from position i on are of the class of element e
\* (counted eight positions at a time)
RunLen(e, s, i) ==
  IF i > Len(s) \/ ~InClass(e, s[i])
    THEN 0
    ELSE LET hi == IF i + 7 < Len(s) THEN i + 7 ELSE Len(s)
             stop == {j \in i..hi : ~InClass(e, s[j])}
         IN IF stop = {}
              THEN (hi + 1 - i) + RunLen(e, s, hi + 1)
              ELSE (CHOOSE j \in stop : \A q \in stop : j <= q) - i

RECURSIVE MatchFrom(_, _, _, _)

\* a quantified element e = pat[k]: of the counts min..run of tokens it can
\* take, the largest for which the rest of the pattern matches (greedy,
\* backtracking to a smaller count when the rest fails)
Greedy(pat, k, s, i) ==
  LET tries ==
        {<<n, MatchFrom(pat, k + 1, s, i + n)>> :
           n \in MinCount(pat[k])..RunLen(pat[k], s, i)}
      good == {r \in tries : r[2] # 0}
  IN IF good = {}
       THEN 0
       ELSE (CHOOSE r \in good : \A q \in good : q[1] <= r[1])[2]

\* match the elements k.. of pat against s from position i
MatchFrom(pat, k, s, i) ==
  IF k > Len(pat)
    THEN i
    ELSE IF pat[k].k = "lit"
      THEN IF i <= Len(s) /\ s[i] = pat[k].t
             THEN MatchFrom(pat, k + 1, s, i + 1)
             ELSE 0
      ELSE Greedy(pat, k, s, i)

\* the match of pat that starts exactly at position i: g the length of
\* group 1, the leading (\s+), which is the longest run of whitespace after
\* which the rest matches; e the position after the match (0: no match)
MatchAt(pat, s, i) ==
  LET tries ==
        {<<n, MatchFrom(pat, 2, s, i + n)>> : n \in 1..RunLen(pat[1], s, i)}
      good == {r \in tries : r[2] # 0}
  IN IF good = {}
       THEN [g |-> 0, e |-> 0]
       ELSE LET r == CHOOSE r \in good : \A q \in good : q[1] <= r[1]
            IN [g |-> r[1], e |-> r[2]]

RECURSIVE Expand(_, _, _)
\* the lines k.. of the template, each after the text g of group 1 (its \1)
Expand(tmpl, g, k) ==
  IF k = Len(tmpl)
    THEN g \o tmpl[k]
    ELSE g \o tmpl[k] \o <<"nl">> \o Expand(tmpl, g, k + 1)

\* the positions of s at which a match of pat starts
Occurrences(pat, s) == {i \in 1..Len(s) : MatchAt(pat, s, i).e # 0}

\* re.sub with count=1: only the leftmost match is replaced
SubFrom_mut(pat, tmpl, s, pos) ==
  LET starts == {i \in Occurrences(pat, s) : i >= pos}
  IN IF starts = {}
       THEN SubSeq(s, pos, Len(s))
       ELSE LET i == CHOOSE i \in starts : \A q \in starts : i <= q
                m == MatchAt(pat, s, i)
            IN SubSeq(s, pos, i - 1)
                 \o Expand(tmpl, SubSeq(s, i, i + m.g - 1), 1)
                 \o SubSeq(s, m.e, Len(s))

RECURSIVE SubFrom(_, _, _, _)
\* re.sub from position pos on: the text before the leftmost match is
\* copied, the match is replaced, and the scan resumes after the match
SubFrom(pat, tmpl, s, pos) ==
  LET starts == {i \in Occurrences(pat, s) : i >= pos}
  IN IF starts = {}
       THEN SubSeq(s, pos, Len(s))
       ELSE LET i == CHOOSE i \in starts : \A q \in starts : i <= q
                m == MatchAt(pat, s, i)
            IN SubSeq(s, pos, i - 1)
                 \o Expand(tmpl, SubSeq(s, i, i + m.g - 1), 1)
                 \o SubFrom(pat, tmpl, s, m.e)

\* re.sub that starts one position late and loses the first character
Sub_mut(pat, tmpl, s) == SubFrom(pat, tmpl, s, 2)

\* re.sub(pattern, template, content)
Sub(pat, tmpl, s) == SubFrom(pat, tmpl, s, 1)

(***************************************************************************)
(* The file system the script runs on.                                     *)
(***************************************************************************)
test_dir == <<"t", "e", "s", "t", "s">>

suffix == <<".", "r", "s">>

\* ".rs" anywhere in the name instead of at its end
EndsWith_mut(name, suf) ==
  \E i \in 1..(Len(name) - Len(suf) + 1) :
    SubSeq(name, i, i + Len(suf) - 1) = suf

\* str.endswith
EndsWith(name, suf) ==
  /\ Len(name) >= Len(suf)
  /\ SubSeq(name, Len(name) - Len(suf) + 1, Len(name)) = suf

\* os.path.join(test_dir, filename)
Join(dir, filename) == dir \o <<"/">> \o filename

\* the directory entry a path made by Join names
Entry(path) == SubSeq(path, Len(test_dir) + 2, Len(path))

\* f.read() of a file opened in text mode: universal newlines, "\r\n" and
\* a lone "\r" are both read as "\n"
ReadText(bytes) ==
  LET marked ==
        [i \in 1..Len(bytes) |->
           IF bytes[i] = "nl" /\ i > 1 /\ bytes[i - 1] = "cr"
             THEN "crlf"
             ELSE IF bytes[i] = "cr" THEN "nl" ELSE bytes[i]]
      IsChar(t) == t # "crlf"
  IN SelectSeq(marked, IsChar)

\* the names a directory entry can have: two candidates and two names
\* that do not end in ".rs"
NamePool ==
  { <<"a", ".", "r", "s">>, <<"b", ".", "r", "s">>,
    <<"a", ".", "r", "s", "~">>, <<"r", "s">> }

\* what open() does with an entry: "rw" a readable and writable file,
\* "ro" a file that cannot be opened for writing, "none" a file that
\* cannot be opened at all, "dir" a directory
Kinds == {"rw", "ro", "none", "dir"}

HeadA == <<"sp", "MatchEnv", "nl", "OkEnv">>
HeadB == <<"sp", "MatchEngine", "nl", "OkEngine">>
ErrText ==
  <<"rb", "nl", "sp", "ErrE", "MatchE", "SzCfg", "Cmt", "rb", "Arm">>
TailA == ErrText \o <<"PrEnv", "rb", "rb", "nl", "rb", "rb">>
TailB == ErrText \o <<"PrEngine", "rb", "rb", "nl", "rb", "rb">>
NoWsA == <<"MatchEnv", "OkEnv", "x">> \o TailA
OccA == <<"sp">> \o NoWsA
OccB == <<"nl", "sp", "sp", "MatchEngine", "OkEngine", "x", "sp">> \o TailB

\* the pieces file contents are made of
Segs ==
  { <<"sp">>, <<"nl">>, <<"cr">>, <<"x">>, <<"rb">>,
    HeadA, TailA, NoWsA, OccA, HeadB, TailB, OccB }

RECURSIVE Concats(_)
\* the concatenations of at most n pieces
Concats(n) ==
  IF n = 0
    THEN {<<>>}
    ELSE LET shorter == Concats(n - 1)
         IN shorter \cup {c \o g : c \in shorter, g \in Segs}

\* file contents of the single-file runs
Contents == Concats(MaxSegs)

\* file contents of the directory runs
SmallContents == { <<"x", "cr", "nl">>, OccA \o <<"nl">>, <<"x">> \o OccB }

\* the orders in which os.listdir can yield the entries S
Orders(S) ==
  {l \in [1..Cardinality(S) -> S] : \A i, j \in DOMAIN l : i # j => l[i] # l[j]}

(***************************************************************************)
(* State.                                                                  *)
(*   dirExists, names, kind, disk   the directory "tests": whether it      *)
(*       exists, its entries, what open() does with each, their bytes      *)
(*   pc                 the statement main() or fix_test_file() is at      *)
(*   listing, idx       the list os.listdir returned and how many of its   *)
(*                      entries the for loop has taken                     *)
(*   file_path, content, original_content   the locals of fix_test_file    *)
(*   fixed_count        the local of main                                  *)
(*   out                the lines printed by this run                      *)
(*   open_files         the file objects that are open                     *)
(*   runs               how many times the script has been started         *)
(* History, not read by the script:                                        *)
(*   disk0              the bytes of the entries when this run started     *)
(*   io                 the file operations of this run, in order          *)
(*   returned           the paths fix_test_file has returned for, this run *)
(*   prev_returned      the same of the run before                         *)
(***************************************************************************)
VARIABLES dirExists, names, kind, disk, pc, listing, idx, file_path,
          content, original_content, fixed_count, out, open_files, runs,
          disk0, io, returned, prev_returned

vars ==
  <<dirExists, names, kind, disk, pc, listing, idx, file_path, content,
    original_content, fixed_count, out, open_files, runs, disk0, io,
    returned, prev_returned>>

fsvars == <<dirExists, names, kind>>

NoPath == <<>>

Ev(op, path) == [op |-> op, path |-> path]

\* the state of a process that has just been started
Started ==
  /\ pc = "main"
  /\ listing = <<>>
  /\ idx = 0
  /\ file_path = NoPath
  /\ content = <<>>
  /\ original_content = <<>>
  /\ fixed_count = 0
  /\ out = <<>>
  /\ open_files = {}
  /\ io = <<>>
  /\ returned = {}

\* a directory of at most MaxEntries entries; an entry whose name does not
\* end in ".rs" holds a text the rules would change
Init ==
  /\ dirExists \in BOOLEAN
  /\ names \in {S \in SUBSET NamePool : Cardinality(S) <= MaxEntries}
  /\ dirExists = FALSE => names = {}
  /\ kind \in [names -> Kinds]
  /\ disk \in [names -> SmallContents \cup {<<>>}]
  /\ \A n \in names :
       /\ kind[n] = "dir" <=> disk[n] = <<>>
       /\ ~EndsWith(n, suffix) =>
            kind[n] \in {"rw", "none"} /\ disk[n] = OccA \o <<"nl">>
  /\ disk0 = disk
  /\ runs = 1
  /\ prev_returned = {}
  /\ Started

\* no directory, or a directory of one entry: a file a.rs of any content,
\* or one of the entries of Init
InitFix ==
  /\ \/ /\ dirExists = FALSE
        /\ names = {}
        /\ kind = [n \in {} |-> "rw"]
        /\ disk = [n \in {} |-> <<>>]
     \/ /\ dirExists = TRUE
        /\ \E n \in NamePool :
             /\ names = {n}
             /\ \/ /\ n = <<"a", ".", "r", "s">>
                   /\ kind = [m \in {n} |-> "rw"]
                   /\ disk \in [{n} -> Contents]
                \/ /\ kind \in [{n} -> Kinds]
                   /\ disk \in [{n} -> {OccA \o <<"nl">>, <<>>}]
                   /\ kind[n] = "dir" <=> disk[n] = <<>>
                   /\ ~EndsWith(n, suffix) => kind[n] \in {"rw", "none"}
  /\ disk0 = disk
  /\ runs = 1
  /\ prev_returned = {}
  /\ Started

(***************************************************************************)
(* main(), lines 64-75.                                                    *)
(***************************************************************************)
Crash == pc' = "crashed"

\* line 69, os.listdir(test_dir) of a directory that exists
ListDir ==
  /\ pc = "main"
  /\ dirExists
  /\ listing' \in Orders(names)
  /\ pc' = "for"
  /\ UNCHANGED <<fsvars, disk, idx, file_path, content, original_content,
                 fixed_count, out, open_files, runs, disk0, io, returned,
                 prev_returned>>

\* line 69, os.listdir(test_dir) raises FileNotFoundError
ListDirFail ==
  /\ pc = "main"
  /\ ~dirExists
  /\ Crash
  /\ UNCHANGED <<fsvars, disk, listing, idx, file_path, content,
                 original_content, fixed_count, out, open_files, runs, disk0,
                 io, returned, prev_returned>>

\* lines 69-70, an entry whose name does not end in ".rs"
ForSkip ==
  /\ pc = "for"
  /\ idx < Len(listing)
  /\ ~EndsWith(listing[idx + 1], suffix)
  /\ idx' = idx + 1
  /\ UNCHANGED <<fsvars, disk, pc, listing, file_path, content,
                 original_content, fixed_count, out, open_files, runs, disk0,
                 io, returned, prev_returned>>

\* lines 69-72, an entry whose name ends in ".rs": call fix_test_file
ForCall ==
  /\ pc = "for"
  /\ idx < Len(listing)
  /\ EndsWith(listing[idx + 1], suffix)
  /\ file_path' = Join(test_dir, listing[idx + 1])
  /\ pc' = "open1"
  /\ UNCHANGED <<fsvars, disk, listing, idx, content, original_content,
                 fixed_count, out, open_files, runs, disk0, io, returned,
                 prev_returned>>

\* line 75, after the loop: print(f"\nFixed {fixed_count} test files")
PrintSummary ==
  /\ pc = "for"
  /\ idx = Len(listing)
  /\ out' = out \o << <<>>, <<"Fixed ", fixed_count, " test files">> >>
  /\ pc' = "done"
  /\ UNCHANGED <<fsvars, disk, listing, idx, file_path, content,
                 original_content, fixed_count, open_files, runs, disk0, io,
                 returned, prev_returned>>

(***************************************************************************)
(* fix_test_file(file_path), lines 6-62.                                   *)
(***************************************************************************)
CanRead(path) == kind[Entry(path)] \in {"rw", "ro"}

CanWrite(path) == kind[Entry(path)] = "rw"

\* lines 8 and 52, open(file_path, 'r')
OpenRead(at, next) ==
  /\ pc = at
  /\ CanRead(file_path)
  /\ open_files' = open_files \cup {[path |-> file_path, mode |-> "r"]}
  /\ io' = Append(io, Ev("open_r", file_path))
  /\ pc' = next
  /\ UNCHANGED <<fsvars, disk, listing, idx, file_path, content,
                 original_content, fixed_count, out, runs, disk0, returned,
                 prev_returned>>

\* the failure of open() caught, and the entry skipped
OpenReadFail_mut ==
  /\ pc = "open1"
  /\ ~CanRead(file_path)
  /\ file_path' = NoPath
  /\ idx' = idx + 1
  /\ pc' = "for"
  /\ UNCHANGED <<fsvars, disk, listing, content, original_content,
                 fixed_count, out, open_files, runs, disk0, io, returned,
                 prev_returned>>

\* line 8, open(file_path, 'r') raises (a directory, or no permission)
OpenReadFail ==
  /\ pc = "open1"
  /\ ~CanRead(file_path)
  /\ Crash
  /\ UNCHANGED <<fsvars, disk, listing, idx, file_path, content,
                 original_content, fixed_count, out, open_files, runs, disk0,
                 io, returned, prev_returned>>

\* line 9, content = f.read()
Read1 ==
  /\ pc = "read1"
  /\ content' = ReadText(disk[Entry(file_path)])
  /\ io' = Append(io, Ev("read", file_path))
  /\ pc' = "close1"
  /\ UNCHANGED <<fsvars, disk, listing, idx, file_path, original_content,
                 fixed_count, out, open_files, runs, disk0, returned,
                 prev_returned>>

\* a file object that is never closed
Close_mut(at, next) ==
  /\ pc = at
  /\ io' = Append(io, Ev("close", file_path))
  /\ pc' = next
  /\ UNCHANGED <<fsvars, disk, listing, idx, file_path, content,
                 original_content, fixed_count, out, open_files, runs, disk0,
                 returned, prev_returned>>

\* the end of a with block: the file object is closed
Close(at, next) ==
  /\ pc = at
  /\ open_files' = {h \in open_files : h.path # file_path}
  /\ io' = Append(io, Ev("close", file_path))
  /\ pc' = next
  /\ UNCHANGED <<fsvars, disk, listing, idx, file_path, content,
                 original_content, fixed_count, out, runs, disk0, returned,
                 prev_returned>>

\* line 32, content = re.sub(old_pattern, new_pattern, content)
SubA ==
  /\ pc = "subA"
  /\ content' = Sub(old_pattern, new_pattern, content)
  /\ pc' = "subB"
  /\ UNCHANGED <<fsvars, disk, listing, idx, file_path, original_content,
                 fixed_count, out, open_files, runs, disk0, io, returned,
                 prev_returned>>

\* line 49, content = re.sub(engine_old_pattern, engine_new_pattern, content)
SubB ==
  /\ pc = "subB"
  /\ content' = Sub(engine_old_pattern, engine_new_pattern, content)
  /\ pc' = "open2"
  /\ UNCHANGED <<fsvars, disk, listing, idx, file_path, original_content,
                 fixed_count, out, open_files, runs, disk0, io, returned,
                 prev_returned>>

\* line 53, original_content = f.read()
Read2 ==
  /\ pc = "read2"
  /\ original_content' = ReadText(disk[Entry(file_path)])
  /\ io' = Append(io, Ev("read", file_path))
  /\ pc' = "close2"
  /\ UNCHANGED <<fsvars, disk, listing, idx, file_path, content,
                 fixed_count, out, open_files, runs, disk0, returned,
                 prev_returned>>

\* the file rewritten whether or not the text changed
Changed_mut == TRUE

\* line 55, if content != original_content
Changed == content # original_content

\* lines 55-56, the texts differ: open(file_path, 'w') truncates the file
OpenWrite ==
  /\ pc = "cmp"
  /\ Changed
  /\ CanWrite(file_path)
  /\ disk' = [disk EXCEPT ![Entry(file_path)] = <<>>]
  /\ open_files' = open_files \cup {[path |-> file_path, mode |-> "w"]}
  /\ io' = Append(io, Ev("open_w", file_path))
  /\ pc' = "write"
  /\ UNCHANGED <<fsvars, listing, idx, file_path, content, original_content,
                 fixed_count, out, runs, disk0, returned, prev_returned>>

\* lines 55-56, the texts differ and open(file_path, 'w') raises
OpenWriteFail ==
  /\ pc = "cmp"
  /\ Changed
  /\ ~CanWrite(file_path)
  /\ Crash
  /\ UNCHANGED <<fsvars, disk, listing, idx, file_path, content,
                 original_content, fixed_count, out, open_files, runs, disk0,
                 io, returned, prev_returned>>

\* line 57, f.write(content)
Write ==
  /\ pc = "write"
  /\ disk' = [disk EXCEPT ![Entry(file_path)] = content]
  /\ io' = Append(io, Ev("write", file_path))
  /\ pc' = "closeW"
  /\ UNCHANGED <<fsvars, listing, idx, file_path, content, original_content,
                 fixed_count, out, open_files, runs, disk0, returned,
                 prev_returned>>

\* fix_test_file returns to line 72 of main: its locals are gone
Return ==
  /\ returned' = returned \cup {file_path}
  /\ file_path' = NoPath
  /\ content' = <<>>
  /\ original_content' = <<>>
  /\ idx' = idx + 1
  /\ pc' = "for"

\* the count set from the position in the listing instead of incremented
ReturnTrue_mut ==
  /\ pc = "fixed"
  /\ out' = Append(out, <<"Fixed: ", file_path>>)
  /\ fixed_count' = idx + 1
  /\ Return
  /\ UNCHANGED <<fsvars, disk, listing, open_files, runs, disk0, io,
                 prev_returned>>

\* lines 58-59 and 72-73: print "Fixed", return True, fixed_count += 1
ReturnTrue ==
  /\ pc = "fixed"
  /\ out' = Append(out, <<"Fixed: ", file_path>>)
  /\ fixed_count' = fixed_count + 1
  /\ Return
  /\ UNCHANGED <<fsvars, disk, listing, open_files, runs, disk0, io,
                 prev_returned>>

\* an unchanged file reported with no line
ReturnFalse_mut ==
  /\ pc = "cmp"
  /\ ~Changed
  /\ out' = out
  /\ Return
  /\ UNCHANGED <<fsvars, disk, listing, fixed_count, open_files, runs, disk0,
                 io, prev_returned>>

\* lines 60-62 and 72: print "No changes needed", return False
ReturnFalse ==
  /\ pc = "cmp"
  /\ ~Changed
  /\ out' = Append(out, <<"No changes needed: ", file_path>>)
  /\ Return
  /\ UNCHANGED <<fsvars, disk, listing, fixed_count, open_files, runs, disk0,
                 io, prev_returned>>

\* the script is started again on the directory the last run left
Rerun ==
  /\ pc \in {"done", "crashed"}
  /\ runs < MaxRuns
  /\ runs' = runs + 1
  /\ disk0' = disk
  /\ prev_returned' = returned
  /\ pc' = "main"
  /\ listing' = <<>>
  /\ idx' = 0
  /\ file_path' = NoPath
  /\ content' = <<>>
  /\ original_content' = <<>>
  /\ fixed_count' = 0
  /\ out' = <<>>
  /\ open_files' = {}
  /\ io' = <<>>
  /\ returned' = {}
  /\ UNCHANGED <<fsvars, disk>>

Next ==
  \/ ListDir
  \/ ListDirFail
  \/ ForSkip
  \/ ForCall
  \/ PrintSummary
  \/ OpenRead("open1", "read1")
  \/ OpenReadFail
  \/ Read1
  \/ Close("close1", "subA")
  \/ SubA
  \/ SubB
  \/ OpenRead("open2", "read2")
  \/ Read2
  \/ Close("close2", "cmp")
  \/ OpenWrite
  \/ OpenWriteFail
  \/ Write
  \/ Close("closeW", "fixed")
  \/ ReturnTrue
  \/ ReturnFalse

NextFix == Next \/ Rerun

\* one run of main() on a directory
Spec == Init /\ [][Next]_vars

\* runs of the script, one after the other, on a directory of one entry
SpecFix == InitFix /\ [][NextFix]_vars

(***************************************************************************)
(* Vocabulary of the properties.                                           *)
(***************************************************************************)
\* a name that ends in ".rs", spelled out character by character
RsName(n) ==
  /\ Len(n) >= 3
  /\ n[Len(n) - 2] = "."
  /\ n[Len(n) - 1] = "r"
  /\ n[Len(n)] = "s"

PathOf(n) == <<"t", "e", "s", "t", "s", "/">> \o n

\* the text of entry n as a run reads it when it starts
Text0(n) == ReadText(disk0[n])

\* both rules applied to a text, rule A first (lines 32 and 49)
Fix(text) ==
  Sub(engine_old_pattern, engine_new_pattern,
      Sub(old_pattern, new_pattern, text))

\* both rules applied to a text, rule B first
FixBA(text) ==
  Sub(old_pattern, new_pattern,
      Sub(engine_old_pattern, engine_new_pattern, text))

HasEv(op, path) == \E k \in DOMAIN io : io[k] = Ev(op, path)

HasLine(line) == \E k \in DOMAIN out : out[k] = line

FixedLine(path) == <<"Fixed: ", path>>

SameLine(path) == <<"No changes needed: ", path>>

\* the entries of the directory a run was asked to fix and could read
Rs == {n \in names : RsName(n)}

\* the two rules change the text of entry n
Changes(n) == Fix(Text0(n)) # Text0(n)

\* the candidates whose text the two rules change
ToFix == {n \in Rs : Changes(n)}

(***************************************************************************)
(* C1: a candidate file is opened for writing and written if and only if   *)
(* the text after both rules differs from its original text; a file whose  *)
(* text the rules leave equal is never opened for writing and keeps its    *)
(* bytes.                                                                  *)
(***************************************************************************)
C1_WrittenIffChanged ==
  \A n \in Rs :
    /\ (HasEv("open_w", PathOf(n)) \/ HasEv("write", PathOf(n)))
         => Changes(n)
    /\ (PathOf(n) \in returned /\ pc \in {"for", "done", "crashed"})
         => (HasEv("write", PathOf(n)) <=> Changes(n))
    /\ disk[n] # disk0[n] => Changes(n)

C1_Witness ==
  \E n, m \in Rs :
    /\ {PathOf(n), PathOf(m)} \subseteq returned
    /\ HasEv("write", PathOf(n)) /\ disk[n] # disk0[n]
    /\ ~HasEv("open_w", PathOf(m)) /\ Len(disk0[m]) > 0

(***************************************************************************)
(* C2: when main() completes, the number printed in "Fixed <N> test files" *)
(* is the number of entries named *.rs whose bytes after the run differ    *)
(* from their bytes before it.                                             *)
(***************************************************************************)
C2_CountIsChangedFiles ==
  pc = "done" =>
    LET N == Cardinality({n \in names : RsName(n) /\ disk[n] # disk0[n]})
    IN /\ fixed_count = N
       /\ out[Len(out)] = <<"Fixed ", N, " test files">>

C2_Witness ==
  /\ pc = "done"
  /\ fixed_count = 1
  /\ \E n \in Rs : disk[n] = disk0[n] /\ PathOf(n) \in returned

(***************************************************************************)
(* C6: an I/O failure is not caught.  The run stops where it failed: no    *)
(* entry later in the enumeration is read, written or reported, the        *)
(* summary is not printed, and the files rewritten before the failure keep *)
(* their rewritten content.                                                *)
(***************************************************************************)
Failing ==
  \/ pc = "main" /\ ~dirExists
  \/ pc = "open1" /\ kind[Entry(file_path)] \in {"none", "dir"}
  \/ pc = "cmp" /\ content # original_content
       /\ kind[Entry(file_path)] # "rw"

CrashedState ==
  pc = "crashed" =>
    /\ \A k \in DOMAIN out : Len(out[k]) = 2
    /\ \A k \in (idx + 2)..Len(listing) :
         /\ disk[listing[k]] = disk0[listing[k]]
         /\ \A e \in DOMAIN io : io[e].path # PathOf(listing[k])
         /\ \A e \in DOMAIN out : out[e][2] # PathOf(listing[k])
    /\ \A k \in 1..idx :
         listing[k] \in ToFix => disk[listing[k]] = Fix(Text0(listing[k]))

C6_FailureEndsRun ==
  /\ []CrashedState
  /\ [][(Failing => pc' = "crashed") /\ (pc = "crashed" => vars' = vars)]_vars

C6_Witness ==
  /\ pc = "crashed"
  /\ idx = 1
  /\ HasLine(FixedLine(PathOf(listing[1])))
  /\ disk[listing[1]] # disk0[listing[1]]

(***************************************************************************)
(* C7: the output of a run without failure is one line per candidate, in   *)
(* the order of the enumeration ("Fixed: <path>" if the file was written,  *)
(* "No changes needed: <path>" otherwise), no line for the other entries,  *)
(* which are never opened, then a blank line and the summary; a "Fixed"    *)
(* line is printed only after the write and the close of the file.         *)
(***************************************************************************)
LineOf(n) ==
  IF \E k \in DOMAIN io :
       /\ io[k] = Ev("write", PathOf(n))
       /\ k < Len(io)
       /\ io[k + 1] = Ev("close", PathOf(n))
    THEN FixedLine(PathOf(n))
    ELSE SameLine(PathOf(n))

RECURSIVE LinesOf(_)
LinesOf(l) ==
  IF l = <<>>
    THEN <<>>
    ELSE (IF RsName(Head(l)) THEN <<LineOf(Head(l))>> ELSE <<>>)
           \o LinesOf(Tail(l))

C7_Output ==
  /\ pc \notin {"main", "crashed"} =>
       out = LinesOf(SubSeq(listing, 1, idx))
               \o (IF pc = "done"
                     THEN << <<>>, <<"Fixed ", fixed_count, " test files">> >>
                     ELSE <<>>)
  /\ \A n \in names : ~RsName(n) => \A k \in DOMAIN io : io[k].path # PathOf(n)

C7_Witness ==
  /\ pc = "done"
  /\ Len(listing) = 2
  /\ \E n \in names : ~RsName(n)
  /\ \E n \in Rs : out[1] = FixedLine(PathOf(n))

(***************************************************************************)
(* C8: files are handled one at a time in the order of the enumeration: at *)
(* most one file is open, every open is followed by one read or one write  *)
(* and then the close before any other open, and the operations on one     *)
(* candidate are over before the first open of the next.                   *)
(***************************************************************************)
Pos(path) == CHOOSE k \in DOMAIN listing : PathOf(listing[k]) = path

C8_OneFileAtATime ==
  /\ Cardinality(open_files) <= 1
  /\ (open_files # {}) <=> (Len(io) % 3 # 0)
  /\ \A k \in DOMAIN io :
       /\ k % 3 = 1 => io[k].op \in {"open_r", "open_w"}
       /\ k % 3 = 2 =>
            /\ io[k].op = (IF io[k - 1].op = "open_r" THEN "read" ELSE "write")
            /\ io[k].path = io[k - 1].path
       /\ k % 3 = 0 => io[k] = Ev("close", io[k - 1].path)
  /\ \A k, l \in DOMAIN io : k < l => Pos(io[k].path) <= Pos(io[l].path)

C8_Witness ==
  /\ pc = "done"
  /\ Len(io) >= 15
  /\ Cardinality({io[k].path : k \in DOMAIN io}) = 2

(***************************************************************************)
(* C10: the bytes every entry ends with and the final count are the same   *)
(* for every order of the enumeration: they are determined by what each    *)
(* entry held when the run started.                                        *)
(***************************************************************************)
C10_OrderIndependent ==
  pc = "done" =>
    /\ \A n \in names :
         disk[n] = (IF n \in ToFix THEN Fix(Text0(n)) ELSE disk0[n])
    /\ fixed_count = Cardinality(ToFix)

C10_Witness ==
  /\ pc = "done"
  /\ Len(listing) = 2
  /\ listing[1] = <<"b", ".", "r", "s">>
  /\ listing[2] = <<"a", ".", "r", "s">>
  /\ fixed_count = 1

(***************************************************************************)
(* C3: a second run on a file the first run handled reports "No changes    *)
(* needed", returns False (nothing is counted), opens nothing for writing  *)
(* and leaves the bytes the first run left.                                *)
(***************************************************************************)
C3_SecondRunIdle ==
  runs >= 2 =>
    \A n \in Rs :
      PathOf(n) \in prev_returned =>
        /\ disk[n] = disk0[n]
        /\ ~HasEv("open_w", PathOf(n)) /\ ~HasEv("write", PathOf(n))
        /\ ~HasLine(FixedLine(PathOf(n)))
        /\ fixed_count = 0
        /\ (pc = "cmp" /\ file_path = PathOf(n)) => content = original_content
        /\ PathOf(n) \in returned => HasLine(SameLine(PathOf(n)))

C3_Witness ==
  /\ runs = 2
  /\ pc = "done"
  /\ \E n \in Rs :
       /\ {PathOf(n)} = prev_returned
       /\ {PathOf(n)} = returned
       /\ \E k \in DOMAIN disk[n] : disk[n][k] = "RetErr"

(***************************************************************************)
(* C4: a candidate in whose text neither pattern occurs goes through both  *)
(* substitutions unchanged, keeps its bytes, raises no error, is reported  *)
(* with "No changes needed" and is not counted.                            *)
(***************************************************************************)
HasOcc(text) ==
  \/ Occurrences(old_pattern, text) # {}
  \/ Occurrences(engine_old_pattern, text) # {}

AfterSub == {"subB", "open2", "read2", "close2", "cmp"}

C4_NoOccurrenceNoChange ==
  \A n \in Rs :
    (/\ kind[n] \in {"rw", "ro"}
     /\ \/ disk[n] # disk0[n]
        \/ HasEv("open_w", PathOf(n))
        \/ HasLine(FixedLine(PathOf(n)))
        \/ PathOf(n) \in returned /\ ~HasLine(SameLine(PathOf(n)))
        \/ PathOf(n) \in returned /\ fixed_count # 0
        \/ file_path = PathOf(n) /\ pc \in AfterSub /\ content # Text0(n)
        \/ file_path = PathOf(n) /\ pc = "crashed")
      => HasOcc(Text0(n))

C4_Witness ==
  /\ pc = "done"
  /\ \E n \in Rs :
       /\ PathOf(n) \in returned
       /\ disk0[n] = HeadA \o TailA
       /\ ~HasOcc(Text0(n))

(***************************************************************************)
(* C5: a replaced occurrence becomes the new text with every line of it    *)
(* starting with the indentation of the matched "match ... {" line,        *)
(* whatever whitespace precedes the occurrence, a newline or blank lines   *)
(* included.                                                               *)
(***************************************************************************)
\* the whitespace of g that follows its last line feed
Indent(g) ==
  LET nls == {k \in DOMAIN g : g[k] = "nl"}
  IN IF nls = {}
       THEN g
       ELSE SubSeq(g, (CHOOSE k \in nls : \A q \in nls : q <= k) + 1, Len(g))

\* text up to the end of the first replacement, were every line of the new
\* text to start with the indentation of the matched line
Indented(pat, tmpl, text) ==
  LET occ == Occurrences(pat, text)
      i == CHOOSE i \in occ : \A q \in occ : i <= q
      g == SubSeq(text, i, i + MatchAt(pat, text, i).g - 1)
  IN SubSeq(text, 1, i + Len(g) - Len(Indent(g)) - 1)
       \o Expand(tmpl, Indent(g), 1)

StartsWith(text, prefix) ==
  /\ Len(text) >= Len(prefix)
  /\ SubSeq(text, 1, Len(prefix)) = prefix

C5_IndentOnEveryLine ==
  LET t0 == ReadText(disk[Entry(file_path)])
      t1 == Sub(old_pattern, new_pattern, t0)
  IN /\ (pc = "subB" /\ Occurrences(old_pattern, t0) # {})
          => StartsWith(content, Indented(old_pattern, new_pattern, t0))
     /\ (pc = "open2" /\ Occurrences(engine_old_pattern, t1) # {})
          => StartsWith(content,
                        Indented(engine_old_pattern, engine_new_pattern, t1))

(***************************************************************************)
(* C9: rule A runs on the text read and rule B on rule A's result, each    *)
(* replaces every occurrence of its pattern, rule A neither creates nor    *)
(* destroys a match of rule B (and conversely), so that the result holds   *)
(* no occurrence of either pattern and is what the opposite order gives.   *)
(***************************************************************************)
Count(pat, text) == Cardinality(Occurrences(pat, text))

C9_RulesIndependent ==
  LET t0 == ReadText(disk[Entry(file_path)])
  IN /\ pc = "subB" =>
          /\ Occurrences(old_pattern, content) = {}
          /\ Count(engine_old_pattern, content) = Count(engine_old_pattern, t0)
     /\ pc = "open2" =>
          /\ ~HasOcc(content)
          /\ content = FixBA(t0)
          /\ Count(old_pattern, t0)
               = Count(old_pattern,
                       Sub(engine_old_pattern, engine_new_pattern, t0))
     /\ (pc = "for" /\ idx >= 1 /\ PathOf(listing[idx]) \in returned)
          => ~HasOcc(ReadText(disk[listing[idx]]))

C9_Witness ==
  /\ pc = "open2"
  /\ \E k \in DOMAIN content : content[k] = "NA1"
  /\ \E k \in DOMAIN content : content[k] = "NB1"
  /\ Count(old_pattern, ReadText(disk[Entry(file_path)])) >= 1

====
